---- MODULE Spec2Model ----
(***************************************************************************)
(* A model of the go-promise package: the Promise core (NewPromise and its *)
(* resolve / reject / finally closures, Then, Catch, Finally), the         *)
(* process-wide WaitGroup behind WaitForPromises, and the combinators All, *)
(* Race, AllSettled and Any.                                               *)
(*                                                                         *)
(* Every goroutine is a task with a program position.  A sync.Mutex is a   *)
(* variable naming its holder; Lock is a step of its own, the critical     *)
(* section and the (deferred) Unlock are the next step.                    *)
(***************************************************************************)
EXTENDS Integers, Sequences, FiniteSets, TLC

\* ------------------------------------------------------------------ bounds
\* Largest number of input promises handed to a combinator.
NumInputs == 2
\* Largest number of Then / Catch / Finally calls a caller makes on one promise.
MaxRegs == 2

\* The promise a combinator returns, and the one a second combinator returns.
Agg == NumInputs + 1
Agg2 == NumInputs + 2
Proms == 1..Agg2

\* ------------------------------------------------------------------ values
\* Payloads are tagged pairs.  Val(0) is Go's zero value of T, NilErr the nil error.
Val(i) == <<"val", i>>
Err(i) == <<"err", i>>
NilErr == <<"nil", 0>>
Unit == <<"unit", 0>>
Arr(s) == <<"arr", s>>
\* The slice `results` of combinator c, handed over without a copy, and the
\* call fmt.Errorf("all promises rejected: %v", errors) of c not yet evaluated.
Slice(c) == <<"slice", c>>
Errorf(c) == <<"errorf", c>>
\* The same two, as a callback names them before it is bound to its combinator.
TheResults == <<"results">>
TheErrorf == <<"errorf">>

\* Handler values (Go func values).  Nil is the nil func.
Nil == <<"nil">>
User(id) == <<"user", id>>
Cb(c, side, idx) == <<"cb", c, side, idx>>
Wrap(old, fin) == <<"wrap", old, fin>>

\* Task identities, used as mutex holders.
Free == <<"free">>
MainTask == <<"main">>
ExecTask(p) == <<"exec", p>>
HTask(p, j) == <<"h", p, j>>

NoCall == <<"none", Unit>>

VARIABLES
    script,     \* the caller's program: a sequence of API calls (fixed by Init)
    main,       \* the caller's position: [i |-> next call, ph |-> "call" | "locked"]
    created,    \* promises NewPromise has returned
    slots,      \* slots[p] = [then, catch, finally]: the fields of Promise p
    mutex,      \* mutex[p]: holder of p.mutex
    exec,       \* exec[p]: the executor goroutine of p
    comb,       \* comb[c]: the locals a combinator's executor shares with its callbacks
    hts,        \* hts[p]: the handler goroutines p's resolve / reject / finally launched
    wg,         \* the WaitGroup counter
    panicked,   \* the process died of "sync: negative WaitGroup counter"
    log,        \* history: the caller's handlers invoked, in order, <<id, argument>>
    settle,     \* history: settle[p] = the resolve / reject / finally calls made on p
    registered, \* history: registered[p] = the handlers of the latest Then and Catch call on p
    settledAt,  \* history: settledAt[p] = the caller's registrations on p made before, per settle[p]
    dropped,    \* history: the promises a settlement of which found no observer
    firstCb,    \* history: firstCb[c] = the first callbacks to enter c's critical section
    waited      \* history: the promises constructed when WaitForPromises returned

vars == <<script, main, created, slots, mutex, exec, comb, hts, wg, panicked, log,
          settle, settledAt, registered, dropped, firstCb, waited>>

\* ------------------------------------------------------------- the programs
Op(op, p, x) == [op |-> op, p |-> p, x |-> x]

\* What a contract-abiding executor of promise i does: one resolve or one reject.
Outcomes(i) == { <<"resolve", Val(i)>>, <<"reject", Err(i)>> }

\* Executors of the single-promise programs: the above, the bare finally()
\* signal, and the executors that settle twice.
ExecutorBodies ==
    { <<o>> : o \in Outcomes(1) }
    \cup { << <<"finally", Unit>> >> }
    \cup { <<a, b>> : a \in Outcomes(1), b \in Outcomes(1) }

Registrations(p) ==
    { Op("Then", p, User("h1")), Op("Then", p, User("h2")),
      Op("Catch", p, User("g1")), Op("Finally", p, User("f1")) }

RECURSIVE SeqsUpTo(_, _)
SeqsUpTo(S, n) ==
    IF n = 0 THEN { <<>> }
    ELSE LET shorter == SeqsUpTo(S, n - 1)
         IN  shorter \cup { Append(s, x) : s \in shorter, x \in S }

WaitOp == Op("Wait", 0, <<>>)

\* p := NewPromise(executor); p.Then(..) ...; WaitForPromises()
SingleScripts ==
    { <<Op("New", 1, b)>> \o r \o <<WaitOp>> :
        b \in ExecutorBodies, r \in SeqsUpTo(Registrations(1), MaxRegs) }

\* The README's usage, for two promises side by side:
\* NewPromise(executor).Then(h).Catch(g) ...; WaitForPromises()
RECURSIVE Chained(_, _)
Chained(n, outs) ==
    IF n = 0 THEN <<>>
    ELSE Chained(n - 1, outs) \o
         << Op("New", n, outs[n]),
            Op("Then", n, User("h1")), Op("Catch", n, User("g1")) >>

ChainedBodies(i) ==
    { <<o>> : o \in Outcomes(i) } \cup { << <<"resolve", Val(i)>>, <<"resolve", Val(i)>> >> }

ChainedScripts ==
    { Chained(2, outs) \o <<WaitOp>> :
        outs \in { f \in [1..2 -> ChainedBodies(1) \cup ChainedBodies(2)] :
                     \A i \in 1..2 : f[i] \in ChainedBodies(i) } }

CombKinds == { "All", "Race", "AllSettled", "Any" }

RECURSIVE News(_, _)
News(n, outs) ==
    IF n = 0 THEN <<>> ELSE News(n - 1, outs) \o << Op("New", n, <<outs[n]>>) >>

\* p1 := NewPromise(..) ... pn := NewPromise(..)
\* Kind(p1, ..., pn).Then(hA).Catch(gA); WaitForPromises()
CombScripts(kind) ==
    UNION { { News(n, outs) \o
              << Op(kind, Agg, [i \in 1..n |-> i]),
                 Op("Then", Agg, User("hA")), Op("Catch", Agg, User("gA")), WaitOp >> :
                outs \in { f \in [1..n -> UNION { Outcomes(i) : i \in 1..n }] :
                             \A i \in 1..n : f[i] \in Outcomes(i) } } :
            n \in 0..NumInputs }

\* The combinators that need every input to resolve.
JoinKinds == { "All", "AllSettled" }

OutcomesOf(n) ==
    { f \in [1..n -> UNION { Outcomes(i) : i \in 1..n }] : \A i \in 1..n : f[i] \in Outcomes(i) }

\* p1.Then(h1).Catch(g1); Kind(p1, ..., pn).Then(hA); WaitForPromises()
HandledInputScripts ==
    UNION { { News(n, outs) \o
              << Op("Then", 1, User("h1")), Op("Catch", 1, User("g1")),
                 Op(kind, Agg, [i \in 1..n |-> i]), Op("Then", Agg, User("hA")), WaitOp >> :
                outs \in OutcomesOf(n), kind \in CombKinds } :
            n \in 1..NumInputs }

\* a := Kind(p1, ..., pn); b := Kind2(p1); WaitForPromises()
SharedInputScripts ==
    UNION { { News(n, outs) \o
              << Op(kind, Agg, [i \in 1..n |-> i]), Op(kind2, Agg2, <<1>>), WaitOp >> :
                outs \in OutcomesOf(n), kind \in CombKinds, kind2 \in CombKinds } :
            n \in 1..NumInputs }

\* The programs that hand a combinator inputs whose slots are in use.
OverwriteScripts == HandledInputScripts \cup SharedInputScripts

Scripts == SingleScripts \cup ChainedScripts \cup UNION { CombScripts(k) : k \in CombKinds }

\* ------------------------------------------------------------ initial state
NoExec == [kind |-> "none", calls |-> <<>>, ins |-> <<>>, i |-> 0, ph |-> "idle"]
NoComb == [results |-> <<>>, remaining |-> 0, settled |-> FALSE, errors |-> <<>>,
           mu |-> Free]
NoCb == <<"none", 0, Unit>>
NoFirst == [then |-> NoCb, catch |-> NoCb, any |-> NoCb]
\* p := &Promise[T]{}
EmptyPromise == [then |-> Nil, catch |-> Nil, finally |-> Nil]

\* The process before the caller's first call.
Start ==
    /\ main = [i |-> 1, ph |-> "call"]
    /\ created = {}
    /\ slots = [p \in Proms |-> EmptyPromise]
    /\ mutex = [p \in Proms |-> Free]
    /\ exec = [p \in Proms |-> NoExec]
    /\ comb = [p \in Proms |-> NoComb]
    /\ hts = [p \in Proms |-> <<>>]
    /\ wg = 0
    /\ panicked = FALSE
    /\ log = <<>>
    /\ settle = [p \in Proms |-> <<>>]
    /\ settledAt = [p \in Proms |-> <<>>]
    /\ registered = [p \in Proms |-> [then |-> Nil, catch |-> Nil]]
    /\ dropped = {}
    /\ firstCb = [p \in Proms |-> NoFirst]
    /\ waited = {}

Init == script \in Scripts /\ Start

\* ------------------------------------------------------------ Promise core
\* NewPromise without its wg.Add(1).
WgAdd_Missing(n) == n

\* wg.Add(1) in NewPromise.
WgAdd(n) == n + 1

\* The test each settle closure makes under the promise's lock.
ResolveSpawns(s) == s.then # Nil
RejectSpawns(s) == s.catch # Nil
FinallySpawns(s) == s.finally # Nil

SlotOf(kind) ==
    CASE kind = "resolve" -> "then"
      [] kind = "reject" -> "catch"
      [] kind = "finally" -> "finally"

Spawns(s, kind) ==
    CASE kind = "resolve" -> ResolveSpawns(s)
      [] kind = "reject" -> RejectSpawns(s)
      [] kind = "finally" -> FinallySpawns(s)

\* go func() { p.then(value); wg.Done() }(): the goroutine reads the slot when
\* it runs, without the lock.  cands are the values that read can return: the
\* one present when the goroutine was launched and every one written since.
\* seen is the value the settle closure tested under the lock, fn the one read.
NewHandlerTask(p, kind, arg) ==
    [p |-> p, side |-> SlotOf(kind), arg |-> arg, cands |-> { slots[p][SlotOf(kind)] },
     seen |-> slots[p][SlotOf(kind)], fn |-> Nil,
     todo |-> <<>>, ph |-> "read", call |-> NoCall, reads |-> <<>>]

\* The body of resolve / reject / finally on p, given the handler tasks h.
Launch(h, p, kind, arg) ==
    IF Spawns(slots[p], kind)
    THEN [h EXCEPT ![p] = Append(@, NewHandlerTask(p, kind, arg))]
    ELSE h

\* The settlements that launch nothing.
Drop(p, kind) == IF Spawns(slots[p], kind) THEN dropped ELSE dropped \cup { p }

\* A Finally that also installs its handler as the completion observer.
FinallySlots_SetsFinally(s, h) ==
    [s EXCEPT !.then = Wrap(s.then, h), !.catch = Wrap(s.catch, h), !.finally = h]

\* A Finally that wraps the success observer only.
FinallySlots_ThenOnly(s, h) == [s EXCEPT !.then = Wrap(s.then, h)]

\* A Then that keeps the wrapper an earlier Finally installed.
ThenSlots_KeepWrap(s, h) ==
    IF s.then[1] = "wrap" THEN [s EXCEPT !.then = Wrap(h, s.then[3])]
    ELSE [s EXCEPT !.then = h]

\* A Then that keeps the handler already installed.
ThenSlots_KeepFirst(s, h) == IF s.then = Nil THEN [s EXCEPT !.then = h] ELSE s

\* p.then = handler
ThenSlots(s, h) == [s EXCEPT !.then = h]
\* p.catch = handler
CatchSlots(s, h) == [s EXCEPT !.catch = h]
\* Finally wraps both current observers; a nil one becomes the handler alone.
FinallySlots(s, h) == [s EXCEPT !.then = Wrap(s.then, h), !.catch = Wrap(s.catch, h)]

\* A write of p's slots is seen (or not) by the goroutines yet to read them.
Observed(h, p, new) ==
    [h EXCEPT ![p] =
        [j \in DOMAIN h[p] |->
            IF h[p][j].ph = "read"
            THEN [h[p][j] EXCEPT !.cands = @ \cup { new[h[p][j].side] }]
            ELSE h[p][j]]]

\* The calls a handler value makes when invoked with arg, in order.
RECURSIVE Flatten(_, _)
Flatten(h, arg) ==
    CASE h[1] = "nil" -> <<>>
      [] h[1] = "wrap" -> Flatten(h[2], arg) \o << <<h[3], Unit>> >>
      [] OTHER -> << <<h, arg>> >>

\* -------------------------------------------------------------- the caller
CurOp == script[main.i]
AtOp(ops) == ~panicked /\ main.i <= Len(script) /\ CurOp.op \in ops
Advance == [i |-> main.i + 1, ph |-> "call"]
\* The number of the caller's Then / Catch / Finally calls on p that have returned.
Registered(p) ==
    Cardinality({ i \in 1..(main.i - 1) :
                    script[i].op \in {"Then", "Catch", "Finally"} /\ script[i].p = p })

UserExec(calls) == [kind |-> "user", calls |-> calls, ins |-> <<>>, i |-> 1, ph |-> "call"]
CombExec(kind, ins) == [kind |-> kind, calls |-> <<>>, ins |-> ins, i |-> 1, ph |-> "start"]

\* NewPromise(executor): count the promise, start the executor, return.
MainNew ==
    /\ AtOp({"New"})
    /\ created' = created \cup { CurOp.p }
    /\ wg' = WgAdd(wg)
    /\ exec' = [exec EXCEPT ![CurOp.p] = UserExec(CurOp.x)]
    /\ main' = Advance
    /\ UNCHANGED <<script, slots, mutex, comb, hts, panicked, log, settle, settledAt, registered,
                   dropped, firstCb, waited>>

\* All / Race / AllSettled / Any: NewPromise with the combinator's executor.
MainComb ==
    /\ AtOp(CombKinds)
    /\ created' = created \cup { CurOp.p }
    /\ wg' = WgAdd(wg)
    /\ exec' = [exec EXCEPT ![CurOp.p] = CombExec(CurOp.op, CurOp.x)]
    /\ main' = Advance
    /\ UNCHANGED <<script, slots, mutex, comb, hts, panicked, log, settle, settledAt, registered,
                   dropped, firstCb, waited>>

\* p.mutex.Lock() at the head of Then / Catch / Finally.
MainLock ==
    /\ AtOp({"Then", "Catch", "Finally"})
    /\ main.ph = "call"
    /\ mutex[CurOp.p] = Free
    /\ mutex' = [mutex EXCEPT ![CurOp.p] = MainTask]
    /\ main' = [main EXCEPT !.ph = "locked"]
    /\ UNCHANGED <<script, created, slots, exec, comb, hts, wg, panicked, log, settle, settledAt,
                   registered, dropped, firstCb, waited>>

\* The handler passed to the latest Then, and to the latest Catch, of a promise.
Registering(r, op, h) ==
    CASE op = "Then" -> [r EXCEPT !.then = h]
      [] op = "Catch" -> [r EXCEPT !.catch = h]
      [] OTHER -> r

MainRegister(op, new) ==
    /\ AtOp({op})
    /\ main.ph = "locked"
    /\ slots' = [slots EXCEPT ![CurOp.p] = new]
    /\ hts' = Observed(hts, CurOp.p, new)
    /\ mutex' = [mutex EXCEPT ![CurOp.p] = Free]
    /\ main' = Advance
    /\ registered' = [registered EXCEPT ![CurOp.p] = Registering(@, op, CurOp.x)]
    /\ UNCHANGED <<script, created, exec, comb, wg, panicked, log, settle, settledAt, dropped,
                   firstCb, waited>>

MainThen == MainRegister("Then", ThenSlots(slots[CurOp.p], CurOp.x))
MainCatch == MainRegister("Catch", CatchSlots(slots[CurOp.p], CurOp.x))
MainFinally == MainRegister("Finally", FinallySlots(slots[CurOp.p], CurOp.x))

\* A WaitForPromises that does not wait.
WaitReturns_Always(n) == TRUE

\* wg.Wait() returns when the counter is zero.
WaitReturns(n) == n = 0

MainWait ==
    /\ AtOp({"Wait"})
    /\ WaitReturns(wg)
    /\ waited' = created
    /\ main' = Advance
    /\ UNCHANGED <<script, created, slots, mutex, exec, comb, hts, wg, panicked, log, settle,
                   settledAt, registered, dropped, firstCb>>

\* ------------------------------------------------------- a user's executor
ExecAt(p, ph) ==
    /\ ~panicked
    /\ exec[p].kind = "user"
    /\ exec[p].i <= Len(exec[p].calls)
    /\ exec[p].ph = ph

\* p.mutex.Lock() at the head of resolve / reject / finally.
ExecLock(p) ==
    /\ ExecAt(p, "call")
    /\ mutex[p] = Free
    /\ mutex' = [mutex EXCEPT ![p] = ExecTask(p)]
    /\ exec' = [exec EXCEPT ![p].ph = "locked"]
    /\ UNCHANGED <<script, main, created, slots, comb, hts, wg, panicked, log, settle, settledAt,
                   registered, dropped, firstCb, waited>>

ExecSettle(p, kind) ==
    LET c == exec[p].calls[exec[p].i] IN
    /\ ExecAt(p, "locked")
    /\ c[1] = kind
    /\ hts' = Launch(hts, p, kind, c[2])
    /\ dropped' = Drop(p, kind)
    /\ settle' = [settle EXCEPT ![p] = Append(@, c)]
    /\ settledAt' = [settledAt EXCEPT ![p] = Append(@, Registered(p))]
    /\ mutex' = [mutex EXCEPT ![p] = Free]
    /\ exec' = [exec EXCEPT ![p].i = @ + 1, ![p].ph = "call"]
    /\ UNCHANGED <<script, main, created, slots, comb, wg, panicked, log, registered, firstCb,
                   waited>>

ExecResolve(p) == ExecSettle(p, "resolve")
ExecReject(p) == ExecSettle(p, "reject")
ExecFinally(p) == ExecSettle(p, "finally")

\* -------------------------------------------------------------- combinators
ErrNoPromisesToRace == <<"msg", "no promises to race">>
ErrAllRejectedEmpty == <<"msg", "all promises rejected">>
\* fmt.Errorf("all promises rejected: %v", errors)
ErrAllRejected(errors) == <<"all promises rejected: %v", errors>>

\* PromiseResult[T]{Value: val, Fulfilled: true}
Fulfilled(val) == [Value |-> val, Error |-> NilErr, Fulfilled |-> TRUE]
\* PromiseResult[T]{Error: err, Fulfilled: false}
Rejected(err) == [Value |-> Val(0), Error |-> err, Fulfilled |-> FALSE]
ZeroResult == [Value |-> Val(0), Error |-> NilErr, Fulfilled |-> FALSE]

\* The locals each executor declares before its loop.
CombLocals(kind, n) ==
    CASE kind = "All" ->
           [NoComb EXCEPT !.results = [i \in 1..n |-> Val(0)], !.remaining = n]
      [] kind = "Race" -> NoComb
      [] kind = "AllSettled" ->
           [NoComb EXCEPT !.results = [i \in 1..n |-> ZeroResult], !.remaining = n]
      [] kind = "Any" ->
           [NoComb EXCEPT !.remaining = n, !.errors = [i \in 1..n |-> NilErr]]

\* What each executor does when len(promises) == 0.
ZeroCall(kind) ==
    CASE kind = "All" -> <<"resolve", Arr(<<>>)>>
      [] kind = "Race" -> <<"reject", ErrNoPromisesToRace>>
      [] kind = "AllSettled" -> <<"resolve", Arr(<<>>)>>
      [] kind = "Any" -> <<"reject", ErrAllRejectedEmpty>>

Outcome(st, call) == [st |-> st, call |-> call]

\* The callbacks' critical sections: the new locals and the call made after
\* mu.Unlock(), if any.  The argument of that call is evaluated after the
\* Unlock: `results` is passed as it is, `errors` is formatted then.
AllThen(st, idx, val) ==
    LET r == [st EXCEPT !.results[idx] = val, !.remaining = @ - 1]
    IN  Outcome(r, IF r.remaining = 0 THEN <<"resolve", TheResults>> ELSE NoCall)

\* All's Catch callback without its "only reject once" test.
AllCatch_Unguarded(st, idx, err) ==
    Outcome([st EXCEPT !.remaining = 0], <<"reject", err>>)

AllCatch(st, idx, err) ==
    IF st.remaining > 0
    THEN Outcome([st EXCEPT !.remaining = 0], <<"reject", err>>)
    ELSE Outcome(st, NoCall)

\* Race's Then callback without its test of the settled flag.
RaceThen_Unguarded(st, idx, val) ==
    Outcome([st EXCEPT !.settled = TRUE], <<"resolve", val>>)

RaceThen(st, idx, val) ==
    IF ~st.settled
    THEN Outcome([st EXCEPT !.settled = TRUE], <<"resolve", val>>)
    ELSE Outcome(st, NoCall)

RaceCatch(st, idx, err) ==
    IF ~st.settled
    THEN Outcome([st EXCEPT !.settled = TRUE], <<"reject", err>>)
    ELSE Outcome(st, NoCall)

AllSettledThen(st, idx, val) ==
    LET r == [st EXCEPT !.results[idx] = Fulfilled(val), !.remaining = @ - 1]
    IN  Outcome(r, IF r.remaining = 0 THEN <<"resolve", TheResults>> ELSE NoCall)

AllSettledCatch(st, idx, err) ==
    LET r == [st EXCEPT !.results[idx] = Rejected(err), !.remaining = @ - 1]
    IN  Outcome(r, IF r.remaining = 0 THEN <<"resolve", TheResults>> ELSE NoCall)

AnyThen(st, idx, val) ==
    IF st.remaining > 0
    THEN Outcome([st EXCEPT !.remaining = 0], <<"resolve", val>>)
    ELSE Outcome(st, NoCall)

\* Any's Catch callback testing remaining <= 0 for remaining == 0.
AnyCatch_AtMostZero(st, idx, err) ==
    LET r == [st EXCEPT !.errors[idx] = err, !.remaining = @ - 1]
    IN  Outcome(r, IF r.remaining <= 0 THEN <<"reject", TheErrorf>> ELSE NoCall)

AnyCatch(st, idx, err) ==
    LET r == [st EXCEPT !.errors[idx] = err, !.remaining = @ - 1]
    IN  Outcome(r, IF r.remaining = 0 THEN <<"reject", TheErrorf>> ELSE NoCall)

Callback(kind, side, st, idx, arg) ==
    CASE kind = "All" /\ side = "then" -> AllThen(st, idx, arg)
      [] kind = "All" /\ side = "catch" -> AllCatch(st, idx, arg)
      [] kind = "Race" /\ side = "then" -> RaceThen(st, idx, arg)
      [] kind = "Race" /\ side = "catch" -> RaceCatch(st, idx, arg)
      [] kind = "AllSettled" /\ side = "then" -> AllSettledThen(st, idx, arg)
      [] kind = "AllSettled" /\ side = "catch" -> AllSettledCatch(st, idx, arg)
      [] kind = "Any" /\ side = "then" -> AnyThen(st, idx, arg)
      [] kind = "Any" /\ side = "catch" -> AnyCatch(st, idx, arg)

\* ------------------------------------------------- a combinator's executor
CombAt(c, phs) == ~panicked /\ exec[c].kind \in CombKinds /\ exec[c].ph \in phs
\* The input the loop is at.
CombInput(c) == exec[c].ins[exec[c].i]

\* if len(promises) == 0 { ...; return }; otherwise declare the locals.
CombStart(c) ==
    /\ CombAt(c, {"start"})
    /\ IF Len(exec[c].ins) = 0
       THEN /\ exec' = [exec EXCEPT ![c].ph = "zcall"]
            /\ comb' = comb
       ELSE /\ exec' = [exec EXCEPT ![c].ph = "then"]
            /\ comb' = [comb EXCEPT ![c] = CombLocals(exec[c].kind, Len(exec[c].ins))]
    /\ UNCHANGED <<script, main, created, slots, mutex, hts, wg, panicked, log, settle, settledAt,
                   registered, dropped, firstCb, waited>>

\* The aggregate's p.mutex.Lock() in the resolve / reject of the empty case.
CombZeroLock(c) ==
    /\ CombAt(c, {"zcall"})
    /\ mutex[c] = Free
    /\ mutex' = [mutex EXCEPT ![c] = ExecTask(c)]
    /\ exec' = [exec EXCEPT ![c].ph = "zlocked"]
    /\ UNCHANGED <<script, main, created, slots, comb, hts, wg, panicked, log, settle, settledAt,
                   registered, dropped, firstCb, waited>>

CombZeroSettle(c) ==
    LET call == ZeroCall(exec[c].kind) IN
    /\ CombAt(c, {"zlocked"})
    /\ hts' = Launch(hts, c, call[1], call[2])
    /\ dropped' = Drop(c, call[1])
    /\ settle' = [settle EXCEPT ![c] = Append(@, call)]
    /\ settledAt' = [settledAt EXCEPT ![c] = Append(@, Registered(c))]
    /\ mutex' = [mutex EXCEPT ![c] = Free]
    /\ exec' = [exec EXCEPT ![c].ph = "done"]
    /\ UNCHANGED <<script, main, created, slots, comb, wg, panicked, log, registered, firstCb,
                   waited>>

\* The input's p.mutex.Lock() in p.Then(..) / .Catch(..) of the loop.
CombLock(c) ==
    /\ CombAt(c, {"then", "catch"})
    /\ mutex[CombInput(c)] = Free
    /\ mutex' = [mutex EXCEPT ![CombInput(c)] = ExecTask(c)]
    /\ exec' = [exec EXCEPT ![c].ph = IF @ = "then" THEN "thenL" ELSE "catchL"]
    /\ UNCHANGED <<script, main, created, slots, comb, hts, wg, panicked, log, settle, settledAt,
                   registered, dropped, firstCb, waited>>

CombAttach(c, ph, op, h, new, next) ==
    /\ CombAt(c, {ph})
    /\ registered' = [registered EXCEPT ![CombInput(c)] = Registering(@, op, h)]
    /\ slots' = [slots EXCEPT ![CombInput(c)] = new]
    /\ hts' = Observed(hts, CombInput(c), new)
    /\ mutex' = [mutex EXCEPT ![CombInput(c)] = Free]
    /\ exec' = [exec EXCEPT ![c] = next]
    /\ UNCHANGED <<script, main, created, comb, wg, panicked, log, settle, settledAt, dropped,
                   firstCb, waited>>

\* p.Then(func(val T) {...})
CombThen(c) ==
    CombAttach(c, "thenL", "Then", Cb(c, "then", exec[c].i),
               ThenSlots(slots[CombInput(c)], Cb(c, "then", exec[c].i)),
               [exec[c] EXCEPT !.ph = "catch"])

\* .Catch(func(err error) {...}), and on to the next input.
CombCatch(c) ==
    CombAttach(c, "catchL", "Catch", Cb(c, "catch", exec[c].i),
               CatchSlots(slots[CombInput(c)], Cb(c, "catch", exec[c].i)),
               [exec[c] EXCEPT !.i = @ + 1,
                               !.ph = IF exec[c].i = Len(exec[c].ins) THEN "done"
                                      ELSE "then"])

\* ------------------------------------------------------ handler goroutines
HAt(p, j, ph) == ~panicked /\ j \in DOMAIN hts[p] /\ hts[p][j].ph = ph
\* The call the goroutine is at: <<handler, argument>>.
HCur(p, j) == Head(hts[p][j].todo)
HIs(p, j, tag) == hts[p][j].todo # <<>> /\ HCur(p, j)[1][1] = tag

\* The goroutine starts: it reads the slot and calls what it read.
HRead(p, j) ==
    /\ HAt(p, j, "read")
    /\ \E h \in hts[p][j].cands :
         hts' = [hts EXCEPT ![p][j].fn = h, ![p][j].todo = Flatten(h, hts[p][j].arg),
                            ![p][j].ph = "run"]
    /\ UNCHANGED <<script, main, created, slots, mutex, exec, comb, wg, panicked, log, settle,
                   settledAt, registered, dropped, firstCb, waited>>

\* What a reader of the value finds: a slice shows the combinator's `results`
\* as they are when it is read.
Contents(a) == IF a[1] = "slice" THEN Arr(comb[a[2]].results) ELSE a

\* A caller's handler runs, and reads its argument.
HUser(p, j) ==
    /\ HAt(p, j, "run")
    /\ HIs(p, j, "user")
    /\ log' = Append(log, <<HCur(p, j)[1][2], Contents(HCur(p, j)[2])>>)
    /\ hts' = [hts EXCEPT ![p][j].todo = Tail(@)]
    /\ UNCHANGED <<script, main, created, slots, mutex, exec, comb, wg, panicked, settle,
                   settledAt, registered, dropped, firstCb, waited>>

\* mu.Lock() at the head of a combinator's callback.
HCbLock(p, j) ==
    /\ HAt(p, j, "run")
    /\ HIs(p, j, "cb")
    /\ comb[HCur(p, j)[1][2]].mu = Free
    /\ comb' = [comb EXCEPT ![HCur(p, j)[1][2]].mu = HTask(p, j)]
    /\ hts' = [hts EXCEPT ![p][j].ph = "mu"]
    /\ UNCHANGED <<script, main, created, slots, mutex, exec, wg, panicked, log, settle,
                   settledAt, registered, dropped, firstCb, waited>>

\* A callback that leaves its critical section without mu.Unlock().
MuUnlock_Held(st) == st

\* mu.Unlock()
MuUnlock(st) == [st EXCEPT !.mu = Free]

\* The first callback of its side, and of any side, to run its critical section.
NoteFirst(f, side, idx, arg) ==
    [f EXCEPT ![side] = IF @ = NoCb THEN <<side, idx, arg>> ELSE @,
              !.any = IF @ = NoCb THEN <<side, idx, arg>> ELSE @]

\* The call a callback makes, bound to the locals of its combinator c.
Bound(c, call) ==
    CASE call[2] = TheResults -> <<call[1], Slice(c)>>
      [] call[2] = TheErrorf -> <<call[1], Errorf(c)>>
      [] OTHER -> call

\* A callback of c has left its critical section with the locals st.  The
\* callbacks of c that have unlocked and not yet formatted `errors` read it
\* without the lock: each element read is the one present at their Unlock or
\* any written since.
Written(c, st) ==
    [q \in Proms |->
        [k \in DOMAIN hts[q] |->
            IF hts[q][k].ph = "call" /\ hts[q][k].call[2] = Errorf(c)
            THEN [hts[q][k] EXCEPT !.reads = [n \in DOMAIN @ |-> @[n] \cup { st.errors[n] }]]
            ELSE hts[q][k]]]

\* The values the argument of the pending call can evaluate to.
ArgChoices(t) ==
    IF t.call[2][1] = "errorf"
    THEN { ErrAllRejected(e) :
             e \in { f \in [DOMAIN t.reads -> UNION { t.reads[n] : n \in DOMAIN t.reads }] :
                       \A n \in DOMAIN t.reads : f[n] \in t.reads[n] } }
    ELSE { t.call[2] }

\* The callback's critical section, to mu.Unlock().
HCb(p, j, kind, side) ==
    LET cb == HCur(p, j)[1]
        c == cb[2]
        out == Callback(kind, side, comb[c], cb[4], HCur(p, j)[2])
    IN  /\ HAt(p, j, "mu")
        /\ exec[c].kind = kind
        /\ cb[3] = side
        /\ comb' = [comb EXCEPT ![c] = MuUnlock(out.st)]
        /\ firstCb' = [firstCb EXCEPT ![c] = NoteFirst(@, side, cb[4], HCur(p, j)[2])]
        /\ hts' = IF out.call = NoCall
                  THEN [Written(c, out.st) EXCEPT ![p][j].todo = Tail(@), ![p][j].ph = "run"]
                  ELSE [Written(c, out.st) EXCEPT
                           ![p][j].call = Bound(c, out.call),
                           ![p][j].reads = [k \in DOMAIN out.st.errors |->
                                              { out.st.errors[k] }],
                           ![p][j].ph = "call"]
        /\ UNCHANGED <<script, main, created, slots, mutex, exec, wg, panicked, log, settle,
                       settledAt, registered, dropped, waited>>

HAllThen(p, j) == HCb(p, j, "All", "then")
HAllCatch(p, j) == HCb(p, j, "All", "catch")
HRaceThen(p, j) == HCb(p, j, "Race", "then")
HRaceCatch(p, j) == HCb(p, j, "Race", "catch")
HAllSettledThen(p, j) == HCb(p, j, "AllSettled", "then")
HAllSettledCatch(p, j) == HCb(p, j, "AllSettled", "catch")
HAnyThen(p, j) == HCb(p, j, "Any", "then")
HAnyCatch(p, j) == HCb(p, j, "Any", "catch")

\* The argument is evaluated, then the aggregate's p.mutex.Lock() in the
\* resolve / reject the callback calls.
HCallLock(p, j) ==
    /\ HAt(p, j, "call")
    /\ mutex[HCur(p, j)[1][2]] = Free
    /\ mutex' = [mutex EXCEPT ![HCur(p, j)[1][2]] = HTask(p, j)]
    /\ \E a \in ArgChoices(hts[p][j]) :
         hts' = [hts EXCEPT ![p][j].call = <<@[1], a>>, ![p][j].reads = <<>>,
                            ![p][j].ph = "callL"]
    /\ UNCHANGED <<script, main, created, slots, exec, comb, wg, panicked, log, settle, settledAt,
                   registered, dropped, firstCb, waited>>

\* The aggregate's resolve / reject, called by a callback.
HCall(p, j) ==
    LET c == HCur(p, j)[1][2]
        call == hts[p][j].call
    IN  /\ HAt(p, j, "callL")
        /\ hts' = Launch([hts EXCEPT ![p][j].todo = Tail(@), ![p][j].call = NoCall,
                                     ![p][j].ph = "run"],
                         c, call[1], call[2])
        /\ dropped' = Drop(c, call[1])
        /\ settle' = [settle EXCEPT ![c] = Append(@, <<call[1], Contents(call[2])>>)]
        /\ settledAt' = [settledAt EXCEPT ![c] = Append(@, Registered(c))]
        /\ mutex' = [mutex EXCEPT ![c] = Free]
        /\ UNCHANGED <<script, main, created, slots, exec, comb, wg, panicked, log, registered,
                       firstCb, waited>>

\* A handler goroutine without its wg.Done().
WgDone_Missing(n) == n

\* wg.Done(): a counter driven below zero panics.
WgDone(n) == n - 1

HDone(p, j) ==
    /\ HAt(p, j, "run")
    /\ hts[p][j].todo = <<>>
    /\ hts' = [hts EXCEPT ![p][j].ph = "done"]
    /\ IF WgDone(wg) < 0
       THEN panicked' = TRUE /\ wg' = wg
       ELSE panicked' = FALSE /\ wg' = WgDone(wg)
    /\ UNCHANGED <<script, main, created, slots, mutex, exec, comb, log, settle, settledAt,
                   registered, dropped, firstCb, waited>>

\* The handler goroutines launched so far.
Tasks == UNION { { <<p, j>> : j \in DOMAIN hts[p] } : p \in Proms }

\* ---------------------------------------------------------- specification
CallerNext ==
    \/ MainNew
    \/ MainLock
    \/ MainThen
    \/ MainCatch
    \/ MainWait

ExecutorNext ==
    \/ \E p \in Proms : ExecLock(p)
    \/ \E p \in Proms : ExecResolve(p)
    \/ \E p \in Proms : ExecReject(p)

HandlerNext ==
    \/ \E t \in Tasks : HRead(t[1], t[2])
    \/ \E t \in Tasks : HUser(t[1], t[2])
    \/ \E t \in Tasks : HDone(t[1], t[2])

CombinatorNext ==
    \/ MainComb
    \/ \E c \in Proms : CombStart(c)
    \/ \E c \in Proms : CombZeroLock(c)
    \/ \E c \in Proms : CombZeroSettle(c)
    \/ \E c \in Proms : CombLock(c)
    \/ \E c \in Proms : CombThen(c)
    \/ \E c \in Proms : CombCatch(c)
    \/ \E t \in Tasks : HCbLock(t[1], t[2])
    \/ \E t \in Tasks : HCallLock(t[1], t[2])
    \/ \E t \in Tasks : HCall(t[1], t[2])

PromiseNext ==
    \/ CallerNext
    \/ ExecutorNext
    \/ HandlerNext
    \/ MainFinally
    \/ \E p \in Proms : ExecFinally(p)

AllNext ==
    \/ CallerNext \/ ExecutorNext \/ HandlerNext \/ CombinatorNext
    \/ \E t \in Tasks : HAllThen(t[1], t[2])
    \/ \E t \in Tasks : HAllCatch(t[1], t[2])

RaceNext ==
    \/ CallerNext \/ ExecutorNext \/ HandlerNext \/ CombinatorNext
    \/ \E t \in Tasks : HRaceThen(t[1], t[2])
    \/ \E t \in Tasks : HRaceCatch(t[1], t[2])

AllSettledNext ==
    \/ CallerNext \/ ExecutorNext \/ HandlerNext \/ CombinatorNext
    \/ \E t \in Tasks : HAllSettledThen(t[1], t[2])
    \/ \E t \in Tasks : HAllSettledCatch(t[1], t[2])

AnyNext ==
    \/ CallerNext \/ ExecutorNext \/ HandlerNext \/ CombinatorNext
    \/ \E t \in Tasks : HAnyThen(t[1], t[2])
    \/ \E t \in Tasks : HAnyCatch(t[1], t[2])

Next ==
    \/ PromiseNext
    \/ CombinatorNext
    \/ \E t \in Tasks : HAllThen(t[1], t[2])
    \/ \E t \in Tasks : HAllCatch(t[1], t[2])
    \/ \E t \in Tasks : HRaceThen(t[1], t[2])
    \/ \E t \in Tasks : HRaceCatch(t[1], t[2])
    \/ \E t \in Tasks : HAllSettledThen(t[1], t[2])
    \/ \E t \in Tasks : HAllSettledCatch(t[1], t[2])
    \/ \E t \in Tasks : HAnyThen(t[1], t[2])
    \/ \E t \in Tasks : HAnyCatch(t[1], t[2])

OverwriteNext ==
    \/ CallerNext \/ ExecutorNext \/ HandlerNext
    \/ MainComb
    \/ \E c \in Proms : CombStart(c)
    \/ \E c \in Proms : CombLock(c)
    \/ \E c \in Proms : CombThen(c)
    \/ \E c \in Proms : CombCatch(c)
    \/ \E t \in Tasks : HCbLock(t[1], t[2])
    \/ \E t \in Tasks : HCallLock(t[1], t[2])
    \/ \E t \in Tasks : HCall(t[1], t[2])
    \/ \E t \in Tasks : HAllThen(t[1], t[2])
    \/ \E t \in Tasks : HAllCatch(t[1], t[2])
    \/ \E t \in Tasks : HRaceThen(t[1], t[2])
    \/ \E t \in Tasks : HRaceCatch(t[1], t[2])
    \/ \E t \in Tasks : HAllSettledThen(t[1], t[2])
    \/ \E t \in Tasks : HAllSettledCatch(t[1], t[2])
    \/ \E t \in Tasks : HAnyThen(t[1], t[2])
    \/ \E t \in Tasks : HAnyCatch(t[1], t[2])

\* Every program of the model.
Spec == Init /\ [][Next]_vars

\* The programs that use one promise, or several side by side.
PromiseInit == Init /\ script \in SingleScripts \cup ChainedScripts
PromiseSpec == PromiseInit /\ [][PromiseNext]_vars

\* The programs that use one combinator.
AllInit == Init /\ script \in CombScripts("All")
AllSpec == AllInit /\ [][AllNext]_vars
RaceInit == Init /\ script \in CombScripts("Race")
RaceSpec == RaceInit /\ [][RaceNext]_vars
AllSettledInit == Init /\ script \in CombScripts("AllSettled")
AllSettledSpec == AllSettledInit /\ [][AllSettledNext]_vars
AnyInit == Init /\ script \in CombScripts("Any")
AnySpec == AnyInit /\ [][AnyNext]_vars

\* The programs that hand a combinator inputs whose slots are already in use.
OverwriteInit == script \in OverwriteScripts /\ Start
OverwriteSpec == OverwriteInit /\ [][OverwriteNext]_vars

\* ------------------------------------------------------------- vocabulary
\* No goroutine can take a step: everything has finished, is blocked, or the
\* process has died.
Terminated == ~ENABLED Next

\* The caller's program has run to its end (WaitForPromises has returned).
Returned == main.i > Len(script)

\* The NewPromise calls of the caller's program.
NewOps == { i \in DOMAIN script : script[i].op = "New" }
\* Every executor of the program makes exactly one call of resolve / reject / finally.
Contract == \A i \in NewOps : Len(script[i].x) = 1

\* The invocations of the caller's handler id, in order.
Invocations(id) == SelectSeq(log, LAMBDA e : e[1] = id)

\* The program uses this combinator, on n inputs (its NewPromise calls come first).
Uses(kind) == \E i \in DOMAIN script : script[i].op = kind
NIn == Cardinality(NewOps)
InputCall(i) == script[i].x[1]
EveryInput(kind) == \A i \in 1..NIn : InputCall(i)[1] = kind

\* The callbacks between mu.Unlock() and the aggregate's resolve / reject.
Pending == { t \in Tasks : hts[t[1]][t[2]].ph \in {"call", "callL"} }
\* The calls such a callback can be about to make, by what its argument holds now.
PendingCalls(t) ==
    { <<hts[t[1]][t[2]].call[1], Contents(a)>> : a \in ArgChoices(hts[t[1]][t[2]]) }
\* The calls of the aggregate's resolve / reject, made or about to be made.
Calls ==
    { settle[Agg][k] : k \in DOMAIN settle[Agg] } \cup UNION { PendingCalls(t) : t \in Pending }
NCalls == Len(settle[Agg]) + Cardinality(Pending)
\* Input i's callback has run its critical section.
CbRan(i) ==
    /\ hts[i] # <<>>
    /\ \/ hts[i][1].ph \in {"call", "callL", "done"}
       \/ hts[i][1].ph = "run" /\ hts[i][1].todo = <<>>

\* The caller's program is one NewPromise, registrations on it, WaitForPromises.
Single == Cardinality(NewOps) = 1 /\ script[1].op = "New" /\ ~\E k \in CombKinds : Uses(k)
\* Its registrations, and the positions of those of one kind.
Regs == SubSeq(script, 2, Len(script) - 1)
RegsOf(op) == { i \in DOMAIN Regs : Regs[i].op = op }
Last(S) == CHOOSE i \in S : \A k \in S : k <= i
\* The one call a contract-abiding executor of promise 1 makes.
TheCall == script[1].x[1]
\* Promise 1 settled once, after every registration of the caller's had returned.
SettledAfterRegs == settledAt[1] = << Len(Regs) >>
IsPrefix(a, b) == Len(a) <= Len(b) /\ a = SubSeq(b, 1, Len(a))
\* The handler goroutines that have called wg.Done().
DoneTasks == { t \in Tasks : hts[t[1]][t[2]].ph = "done" }

\* ------------------------------------------------------------------ claims

\* C1: a promise whose executor calls resolve(v) once and whose caller
\* registers one Then(h) invokes h with v exactly once, whichever of Then and
\* resolve takes the promise's lock first.
C1_Program ==
    script = << Op("New", 1, << <<"resolve", Val(1)>> >>), Op("Then", 1, User("h1")),
                WaitOp >>

C1_ThenDeliveredExactlyOnce ==
    C1_Program =>
        /\ Len(Invocations("h1")) <= 1
        /\ Terminated => Invocations("h1") = << <<"h1", Val(1)>> >>

\* C2: for non-empty inputs that each settle once, All's aggregate is resolved
\* if and only if every input fulfils, and then with the inputs' values in
\* input order.
C2_Expected == <<"resolve", Arr([i \in 1..NIn |-> InputCall(i)[2]])>>

C2_AllResolvesIffAllFulfil ==
    (Uses("All") /\ NIn >= 1) =>
        /\ settle[Agg] # <<>> /\ settle[Agg][1][1] = "resolve" =>
              EveryInput("resolve") /\ settle[Agg] = << C2_Expected >>
        /\ Terminated /\ EveryInput("resolve") => settle[Agg] = << C2_Expected >>

\* C3: All is fail-fast and settles at most once: the first rejection observed
\* makes the aggregate's reject be called with that input's error, and no
\* later fulfilment or rejection causes another call of resolve or reject.
C3_AllFailFast ==
    (Uses("All") /\ NIn >= 1) =>
        /\ NCalls <= 1
        /\ \A t \in Pending :
              hts[t[1]][t[2]].side = "catch" =>
                  PendingCalls(t) = { <<"reject", hts[t[1]][t[2]].arg>> }
        /\ firstCb[Agg].catch # NoCb =>
              /\ Calls = { <<"reject", firstCb[Agg].catch[3]>> }
              /\ firstCb[Agg].catch[3] = InputCall(firstCb[Agg].catch[2])[2]
        /\ (\E i \in 1..NIn : InputCall(i)[1] = "reject") =>
              \A c \in Calls : c[1] = "reject"

\* A rejection settled the aggregate and a fulfilment was observed afterwards.
C3_Witness ==
    /\ Uses("All")
    /\ settle[Agg] = << <<"reject", Err(2)>> >>
    /\ comb[Agg].remaining < 0
    /\ CbRan(1)

\* C4: AllSettled never rejects; once every input has settled it resolves
\* exactly once, slot i holding input i's value or error; it does not resolve
\* while an input is unsettled.
C4_Slot(i) ==
    IF InputCall(i)[1] = "resolve" THEN Fulfilled(InputCall(i)[2])
    ELSE Rejected(InputCall(i)[2])

C4_Expected == <<"resolve", Arr([i \in 1..NIn |-> C4_Slot(i)])>>

C4_AllSettledResolvesOnce ==
    (Uses("AllSettled") /\ NIn >= 1) =>
        /\ \A c \in Calls : c = C4_Expected
        /\ NCalls <= 1
        /\ NCalls = 1 => \A i \in 1..NIn : settle[i] # <<>>
        /\ Terminated => settle[Agg] = << C4_Expected >>

\* C5: Race settles its aggregate exactly once, with the outcome of the first
\* input whose callback takes the settled flag; later settlements leave the
\* aggregate untouched.
C5_FirstOutcome ==
    << IF firstCb[Agg].any[1] = "then" THEN "resolve" ELSE "reject", firstCb[Agg].any[3] >>

C5_RaceFirstWins ==
    (Uses("Race") /\ NIn >= 1) =>
        /\ NCalls <= 1
        /\ firstCb[Agg].any = NoCb => NCalls = 0
        /\ firstCb[Agg].any # NoCb =>
              /\ NCalls = 1
              /\ Calls = { C5_FirstOutcome }
              /\ firstCb[Agg].any[3] = InputCall(firstCb[Agg].any[2])[2]

\* A rejection won the flag and a fulfilment was observed afterwards.
C5_Witness ==
    /\ Uses("Race")
    /\ settle[Agg] = << <<"reject", Err(2)>> >>
    /\ firstCb[Agg].then # NoCb
    /\ CbRan(1)

\* C6: Any resolves with the first fulfilment observed and discards the rest;
\* it rejects only when every input has rejected, once, with an error holding
\* every input's error; it never both resolves and rejects.
C6_AllErrors == <<"reject", ErrAllRejected([i \in 1..NIn |-> InputCall(i)[2]])>>

C6_AnyFirstFulfilment ==
    (Uses("Any") /\ NIn >= 1) =>
        /\ NCalls <= 1
        /\ firstCb[Agg].then # NoCb =>
              /\ Calls = { <<"resolve", firstCb[Agg].then[3]>> }
              /\ firstCb[Agg].then[3] = InputCall(firstCb[Agg].then[2])[2]
        /\ \A c \in Calls :
              c[1] = "reject" =>
                  /\ EveryInput("reject")
                  /\ \A i \in 1..NIn : CbRan(i)
                  /\ c = C6_AllErrors
        /\ (\A i \in 1..NIn : CbRan(i)) => NCalls = 1

\* Every input rejected and the aggregate rejected with all the errors.
C6_Witness ==
    /\ Uses("Any")
    /\ NIn >= 2
    /\ settle[Agg] = << C6_AllErrors >>
    /\ \A i \in 1..NIn : CbRan(i)

\* C7: with zero inputs All and AllSettled resolve with an empty sequence and
\* Race and Any reject with their structural error, so that the Then (resp.
\* Catch) handler attached to the returned promise is eventually invoked
\* exactly once with it.
C7_Kind == script[CHOOSE i \in DOMAIN script : script[i].op \in CombKinds].op

C7_Handler == IF ZeroCall(C7_Kind)[1] = "resolve" THEN "hA" ELSE "gA"

C7_ZeroInputsDelivered ==
    ((\E k \in CombKinds : Uses(k)) /\ NIn = 0) =>
        /\ \A c \in Calls : c = ZeroCall(C7_Kind)
        /\ Len(log) <= 1
        /\ Terminated => log = << <<C7_Handler, ZeroCall(C7_Kind)[2]>> >>

\* C8: WaitForPromises, called after NewPromise returned p, does not return
\* before an observer invocation of p has finished, for every constructed
\* promise, aggregates included.
ObserverFinished(p) == \E j \in DOMAIN hts[p] : hts[p][j].ph = "done"

C8_WaitIsBarrier ==
    Contract => \A p \in waited : ObserverFinished(p)

\* WaitForPromises returned in a program with inputs and an aggregate.
C8_Witness ==
    /\ Contract
    /\ Agg \in waited
    /\ Cardinality(waited) >= 2

\* C9: if every constructed promise has an observer registered and its
\* executor settles it once, WaitForPromises eventually returns, as in the
\* README's NewPromise(..).Then(..).Catch(..) usage.
C9_Observed ==
    \A i \in NewOps :
        /\ \E k \in DOMAIN script : script[k].op = "Then" /\ script[k].p = script[i].p
        /\ \E k \in DOMAIN script : script[k].op = "Catch" /\ script[k].p = script[i].p

C9_WaitReturns ==
    (Contract /\ C9_Observed /\ (\A i \in NewOps : InputCall(i)[1] # "finally")) =>
        (Terminated => Returned)

\* C10: a settlement that finds no observer of its kind is dropped: no handler
\* is ever invoked for that promise, the counter is never decremented for it,
\* and every later WaitForPromises blocks forever.
C10_DroppedLeaks ==
    Contract =>
        \A p \in dropped :
            /\ hts[p] = <<>>
            /\ wg > 0
            /\ ~Returned

\* A rejection was dropped although a Then handler was registered, and the
\* caller is blocked in WaitForPromises.
C10_Witness ==
    /\ Contract
    /\ 1 \in dropped
    /\ settle[1] = << <<"reject", Err(1)>> >>
    /\ slots[1].then # Nil
    /\ AtOp({"Wait"})
    /\ Terminated

\* The single-promise programs whose last registration is their only Finally.
C11_Program ==
    /\ Single /\ Contract /\ TheCall[1] \in {"resolve", "reject"}
    /\ RegsOf("Finally") = { Len(Regs) }

\* The handler of the settlement's kind installed before the Finally, if any.
C11_Previous ==
    LET S == RegsOf(IF TheCall[1] = "resolve" THEN "Then" ELSE "Catch")
    IN  IF S = {} THEN <<>> ELSE << <<Regs[Last(S)].x[2], TheCall[2]>> >>

C11_Expected == C11_Previous \o << <<Regs[Len(Regs)].x[2], Unit>> >>

\* C11: a Finally(h) registered after the Then / Catch handlers and before the
\* promise settles runs h exactly once, right after the previously installed
\* handler of the outcome's kind, or alone when there was none, and the
\* WaitGroup counter is decremented once.
C11_FinallyRunsOnceAfterHandler ==
    C11_Program /\ SettledAfterRegs =>
        /\ IsPrefix(log, C11_Expected)
        /\ Len(hts[1]) = 1
        /\ wg + Cardinality(DoneTasks) = 1
        /\ Terminated => log = C11_Expected /\ wg = 0 /\ Returned

\* Then(h1), Finally(f1), then resolve(1): h1 ran, f1 ran after it, Wait returned.
C11_Witness ==
    /\ C11_Program /\ SettledAfterRegs
    /\ Regs[1] = Op("Then", 1, User("h1"))
    /\ log = << <<"h1", Val(1)>>, <<"f1", Unit>> >>
    /\ wg = 0 /\ Returned

\* The single-promise programs that register with Then and Catch only.
C12_Program == Single /\ Contract /\ RegsOf("Finally") = {}

\* The handler the last of the first n registrations of kind op installed.
C12_Installed(op, n) ==
    LET S == { i \in RegsOf(op) : i <= n }
    IN  IF S = {} THEN Nil ELSE Regs[Last(S)].x

C12_Expected ==
    LET h == C12_Installed(IF TheCall[1] = "resolve" THEN "Then" ELSE "Catch", Len(Regs))
    IN  IF h = Nil \/ TheCall[1] = "finally" THEN <<>> ELSE << <<h[2], TheCall[2]>> >>

\* C12: Then and Catch are single-slot registrations: each call replaces the
\* handler of its kind, registering invokes nothing, and a promise settled
\* after its registrations invokes the last handler of the outcome's kind
\* exactly once and the replaced ones never (Then(h1), Then(h2), resolve(v):
\* h2 once with v, h1 never).
C12_SingleSlot ==
    C12_Program =>
        /\ main.ph = "call" /\ main.i >= 2 =>
              /\ slots[1].then = C12_Installed("Then", Registered(1))
              /\ slots[1].catch = C12_Installed("Catch", Registered(1))
        /\ settle[1] = <<>> => log = <<>> /\ hts[1] = <<>>
        /\ SettledAfterRegs =>
              /\ IsPrefix(log, C12_Expected)
              /\ Terminated => log = C12_Expected

\* Then(h1), Then(h2), then resolve(1): h2 was invoked with 1 and h1 was not.
C12_Witness ==
    /\ C12_Program /\ SettledAfterRegs
    /\ Regs = << Op("Then", 1, User("h1")), Op("Then", 1, User("h2")) >>
    /\ log = << <<"h2", Val(1)>> >>
    /\ Terminated

\* The single-promise programs whose executor calls resolve / reject twice.
C13_Program ==
    /\ Single /\ Len(script[1].x) = 2
    /\ \A k \in 1..2 : script[1].x[k][1] \in {"resolve", "reject"}

\* C13: resolve and reject are mutually exclusive: of an executor's two calls
\* only the first one launches an observer invocation; the later call launches
\* none, so at most one handler runs and the counter is decremented at most
\* once.
C13_FirstSettlementOnly ==
    C13_Program =>
        /\ Len(hts[1]) <= 1
        /\ \A j \in DOMAIN hts[1] :
              /\ hts[1][j].side = SlotOf(script[1].x[1][1])
              /\ hts[1][j].arg = script[1].x[1][2]
        /\ Len(log) <= 1
        /\ ~panicked

\* C14: when every user executor settles its promise once, the WaitGroup
\* counter is never negative and always equals the promises constructed minus
\* the observer invocations completed; the aggregates of All, Race, AllSettled
\* and Any are within that condition, their resolve / reject being called at
\* most once in total.
C14_CounterAccounting ==
    Contract =>
        /\ wg >= 0 /\ ~panicked
        /\ wg = Cardinality(created) - Cardinality(DoneTasks)
        /\ NCalls <= 1

\* A combinator over two inputs: all three promises were observed, counter 0.
C14_Witness ==
    /\ Contract /\ Uses("AllSettled")
    /\ Cardinality(created) = 3 /\ Cardinality(DoneTasks) = 3
    /\ settle[Agg] # <<>>
    /\ wg = 0

\* The handler goroutines that have read their slot.
C15_Readers == { t \in Tasks : hts[t[1]][t[2]].ph # "read" }

\* C15: every access to a promise's observer slots is made under the promise's
\* lock, so the handler a settlement invokes is the one installed when resolve
\* / reject tested the slot under the lock, whatever Then / Catch / Finally
\* is called between that test and the start of the handler goroutine.
C15_InvokesHandlerSeenUnderLock ==
    \A t \in C15_Readers : hts[t[1]][t[2]].fn = hts[t[1]][t[2]].seen

\* The locks a task holds: promise mutexes and combinators' dedicated locks.
C16_Held(t) ==
    { <<"mutex", p>> : p \in { q \in Proms : mutex[q] = t } }
    \cup { <<"mu", c>> : c \in { q \in Proms : comb[q].mu = t } }

C16_Holders == ({ mutex[p] : p \in Proms } \cup { comb[c].mu : c \in Proms }) \ { Free }

\* Every goroutine has run to its end, but for the caller blocked in wg.Wait().
C16_AllFinished ==
    /\ Returned \/ CurOp.op = "Wait"
    /\ \A p \in Proms :
          \/ exec[p].kind = "none"
          \/ exec[p].kind = "user" /\ exec[p].i > Len(exec[p].calls)
          \/ exec[p].kind \in CombKinds /\ exec[p].ph = "done"
    /\ \A t \in Tasks : hts[t[1]][t[2]].ph = "done"

\* C16: no task holds two locks at once: a combinator callback has released
\* its dedicated lock when it calls the aggregate's resolve / reject, and a
\* goroutine holds no promise lock while it runs a handler body; no reachable
\* state is a lock deadlock: when nothing can step, no lock is held and no
\* task is left waiting for one.
C16_NoLockNesting ==
    /\ \A t \in C16_Holders : Cardinality(C16_Held(t)) <= 1
    /\ \A t \in Tasks :
          /\ hts[t[1]][t[2]].ph \in {"call", "callL"} =>
                \A c \in Proms : comb[c].mu # HTask(t[1], t[2])
          /\ hts[t[1]][t[2]].ph \in {"read", "run", "mu", "done"} =>
                \A p \in Proms : mutex[p] # HTask(t[1], t[2])
    /\ Terminated /\ ~panicked => C16_Holders = {} /\ C16_AllFinished

\* One callback is inside the aggregate's resolve / reject, holding the
\* aggregate's lock, while another is inside the combinator's dedicated lock.
C16_Witness ==
    \E t \in Tasks, u \in Tasks :
        /\ t # u
        /\ hts[t[1]][t[2]].ph = "callL" /\ mutex[Agg] = HTask(t[1], t[2])
        /\ hts[u[1]][u[2]].ph = "mu" /\ comb[Agg].mu = HTask(u[1], u[2])

\* The single-promise programs that call Finally first and Then / Catch after it.
C17_Program ==
    /\ Single /\ Contract /\ TheCall[1] \in {"resolve", "reject"}
    /\ Len(Regs) >= 2 /\ RegsOf("Finally") = { 1 }

\* The handler registered after the Finally for the outcome's kind runs alone;
\* with none, the wrapper the Finally left in that slot runs the Finally handler.
C17_Expected ==
    LET S == RegsOf(IF TheCall[1] = "resolve" THEN "Then" ELSE "Catch")
    IN  IF S = {} THEN << <<Regs[1].x[2], Unit>> >>
        ELSE << <<Regs[Last(S)].x[2], TheCall[2]>> >>

\* C17: Finally is ordering-sensitive: after Finally(h) then Then(g), a
\* resolve runs g and not h, while a reject of the same promise still runs h
\* through the wrapped failure observer; the same for Finally(h) then Catch(g)
\* with the outcomes exchanged.
C17_FinallyBeforeHandlerIsLost ==
    C17_Program /\ SettledAfterRegs =>
        /\ IsPrefix(log, C17_Expected)
        /\ Terminated => log = C17_Expected /\ wg = 0 /\ Returned

\* Finally(f1), Then(h1), then resolve(1): h1 ran, f1 did not, the run is over.
C17_Witness ==
    /\ C17_Program /\ SettledAfterRegs
    /\ Regs = << Op("Finally", 1, User("f1")), Op("Then", 1, User("h1")) >>
    /\ TheCall[1] = "resolve"
    /\ log = << <<"h1", Val(1)>> >>
    /\ Terminated

\* The single-promise programs whose executor signals through finally() only.
C18_Program == Single /\ Contract /\ TheCall[1] = "finally"

\* C18: no public operation installs the completion observer: after any
\* sequence of Then / Catch / Finally the finally field is unset, so an
\* executor that signals only through finally() makes no handler run and never
\* decrements the counter, and WaitForPromises never returns.
C18_FinallySlotNeverSet ==
    /\ \A p \in Proms : slots[p].finally = Nil
    /\ C18_Program =>
          /\ hts[1] = <<>> /\ log = <<>>
          /\ wg = Cardinality(created)
          /\ ~Returned
          /\ Terminated => CurOp.op = "Wait" /\ wg = 1

\* Then(h1), Finally(f1) and an executor that called finally(): nothing ran
\* and the caller is blocked in WaitForPromises.
C18_Witness ==
    /\ C18_Program
    /\ Regs = << Op("Then", 1, User("h1")), Op("Finally", 1, User("f1")) >>
    /\ settle[1] = << <<"finally", Unit>> >> /\ SettledAfterRegs
    /\ Terminated /\ CurOp.op = "Wait" /\ wg = 1

\* The combinator invocations of the caller's program, and their aggregates.
C19_CombOps == { i \in DOMAIN script : script[i].op \in CombKinds }
C19_Combs == { script[i].p : i \in C19_CombOps }
\* Promise 1 is the input whose slots are in use: the caller registered h1 and
\* g1 on it before the combinator call, or two combinators were handed it.
\* Every combinator has attached its callbacks to each of its inputs.
C19_AttachedAll ==
    /\ main.i > Last(C19_CombOps)
    /\ \A c \in C19_Combs : exec[c].ph = "done"
\* Input 1 has settled (its executor makes one call of resolve or reject).
C19_Settled == settle[1] # <<>>
\* The goroutine that settlement launched, if any.  Its seen field is the slot
\* value the settlement tested under the lock: by C19_SlotsHoldLastRegistered
\* the handler whose Then, resp. Catch, was registered last at that moment.
C19_Delivery == hts[1][1]
\* The callback of combinator c was the one registered last when input 1 settled.
C19_HeldSlot(c) ==
    hts[1] # <<>> /\ C19_Delivery.seen[1] = "cb" /\ C19_Delivery.seen[2] = c
\* A callback of combinator c has been run with input 1's outcome.
C19_ObservedBy(c) ==
    hts[1] # <<>> /\ C19_Delivery.ph # "read"
    /\ C19_Delivery.fn[1] = "cb" /\ C19_Delivery.fn[2] = c
\* Combinator c has settled, or a callback of its is about to settle it.
C19_Settles(c) ==
    \/ settle[c] # <<>>
    \/ \E t \in Pending : HCur(t[1], t[2])[1][2] = c

\* Attaching overwrites: each slot holds the handler of the latest Then, resp.
\* Catch, call on the promise, a caller's or a combinator's.
C19_SlotsHoldLastRegistered ==
    \A p \in Proms :
        slots[p].then = registered[p].then /\ slots[p].catch = registered[p].catch

\* The settlement of input 1 is delivered to exactly one callback: never to
\* two, and once the caller's registrations and every combinator's are in
\* place it has been handed to one, which runs to its end.
C19_ExactlyOneCallback ==
    /\ Len(hts[1]) <= Len(settle[1])
    /\ C19_Settled /\ C19_AttachedAll => Len(hts[1]) = 1
    /\ C19_Settled /\ C19_AttachedAll /\ Terminated /\ ~panicked =>
          C19_Delivery.ph = "done" /\ C19_Delivery.fn # Nil

\* The callback run is the one registered last when the input settled.
C19_TheOneRegisteredLast ==
    hts[1] # <<>> /\ C19_Delivery.ph # "read" => C19_Delivery.fn = C19_Delivery.seen

\* A caller's handler on input 1 runs only if it was the one registered last
\* when the input settled: an overwritten one never runs.
C19_OverwrittenHandlerNeverRuns ==
    \A id \in {"h1", "g1"} :
        Invocations(id) # <<>> => hts[1] # <<>> /\ C19_Delivery.seen = User(id)

\* A combinator whose callback was not the one registered last when input 1
\* settled never observes that outcome, and an All or AllSettled among them
\* never settles.
C19_LoserNeverObserves ==
    \A c \in C19_Combs :
        C19_Settled /\ ~C19_HeldSlot(c) =>
            /\ ~C19_ObservedBy(c)
            /\ exec[c].kind \in JoinKinds => ~C19_Settles(c)

\* C19: combinators attach by overwriting their inputs' single slots: an input
\* that already has the caller's Then / Catch handlers, or that is also an
\* input of another combinator invocation, delivers each settlement to exactly
\* one callback (the one whose Then, resp. Catch, was registered last) and to
\* no other; so the overwritten caller handler never runs and the other
\* combinator never observes that input's outcome (an AllSettled or All that
\* lost the slot never settles).
C19_DeliveredToLastRegistered ==
    /\ C19_SlotsHoldLastRegistered
    /\ C19_ExactlyOneCallback
    /\ C19_TheOneRegisteredLast
    /\ C19_OverwrittenHandlerNeverRuns
    /\ C19_LoserNeverObserves

====
